---------------------------- MODULE Spec2Model ----------------------------
(***************************************************************************)
(* Billing webhook reconciliation (backend/airweave/billing/               *)
(* webhook_handler.py): the BillingWebhookProcessor handlers acting on one *)
(* organization's billing record and billing-period ledger.                *)
(*                                                                         *)
(* The handlers are modelled from webhook_handler.py.  The collaborators   *)
(* they call and whose code is not among the source files (the ledger and  *)
(* record operations of billing.transactions and crud, and the plan        *)
(* inference of billing.plan_logic) are modelled from the specification's  *)
(* component design (sections 4.2 and 4.3).                                *)
(*                                                                         *)
(* A last section models VerifyStep.execute of the connector test harness  *)
(* (monke/core/steps.py): concurrent entity verifications sharing one      *)
(* rescue resync.                                                          *)
(*                                                                         *)
(* Time is counted in days.  Nullable values are "none" (plans, ids,       *)
(* strings) and NoTime (timestamps).                                       *)
(***************************************************************************)
EXTENDS Integers, Sequences, FiniteSets, TLC

VARIABLES
    record,     \* the organization's billing record (OrganizationBilling row)
    periods,    \* the billing-period ledger: a sequence, a period's id is its index
    now,        \* the wall clock (datetime.utcnow)
    last,       \* the last event delivered to process_event and what became of it
    pre,        \* record and ledger as they were when that event was delivered
    delivered,  \* how many events have been delivered
    tasks,      \* concurrent handler invocations: position and captured locals
    base,       \* record and ledger from which the concurrent invocations started
    verification_config,  \* VerifyStep: retries and resync_on_miss
    verifiers,            \* VerifyStep: the verify_with_retries coroutines
    resync_lock,          \* VerifyStep: the task holding resync_lock, 0 if free
    resync_triggered,     \* VerifyStep: the flag of that name
    rescue                \* VerifyStep: the rescue SyncStep, its runs and state

billing_vars == <<record, periods, now, last, pre, delivered, tasks, base>>

verify_vars == <<verification_config, verifiers, resync_lock, resync_triggered, rescue>>

vars == <<billing_vars, verify_vars>>

\* No VerifyStep is running.
NoVerification ==
    /\ verification_config = [retries |-> 1, resync_on_miss |-> FALSE]
    /\ verifiers = <<>>
    /\ resync_lock = 0
    /\ resync_triggered = FALSE
    /\ rescue = [runs |-> 0, state |-> "idle"]

---------------------------------------------------------------------------
(* Bounds of the model *)

MaxTime == 2
MaxPeriods == 3
MaxEvents == 3

(* Program constants *)

GraceDays == 7

NoTime == 0 - 1
Plans == {"developer", "pro", "team", "enterprise"}

PlanRank(p) ==
    CASE p = "developer" -> 0
      [] p = "pro" -> 1
      [] p = "team" -> 2
      [] OTHER -> 3

---------------------------------------------------------------------------
(* Billing Period Ledger *)

Live(p) == p.status \in {"active", "grace"}

Terminal(p) == p.status \in {"completed", "ended_unpaid"}

LiveIds(ps) == {i \in DOMAIN ps : Live(ps[i])}

\* currentPeriod(org, at): the period whose [period_start, period_end) contains
\* `at`, the most recently created one when several do; 0 when none does.
CoveringIds(ps, at) ==
    {i \in DOMAIN ps : ps[i].period_start <= at /\ at < ps[i].period_end}

get_current_billing_period(ps, at) ==
    IF CoveringIds(ps, at) = {} THEN 0
    ELSE CHOOSE i \in CoveringIds(ps, at) : \A j \in CoveringIds(ps, at) : j <= i

\* Faulty variants of createPeriod's guard: one that never refuses, one that
\* only a Grace period makes refuse.
CreateNeverFails(ps) == FALSE

CreateFailsOnGraceOnly(ps) == \E i \in DOMAIN ps : ps[i].status = "grace"

\* createPeriod fails while the organization has an Active or Grace period.
CreateFails(ps) == LiveIds(ps) # {}

NewPeriod(plan, start, end, transition, status, previous) ==
    [plan |-> plan, period_start |-> start, period_end |-> end,
     status |-> status, transition |-> transition,
     previous_period_id |-> previous, stripe_invoice_id |-> "none"]

create_billing_period(ps, plan, start, end, transition, status, previous) ==
    Append(ps, NewPeriod(plan, start, end, transition, status, previous))

\* completePeriod: a status transition, a no-op on a period already terminal.
complete_billing_period(ps, id, status) ==
    IF Terminal(ps[id]) THEN ps
    ELSE [ps EXCEPT ![id].status = status]

---------------------------------------------------------------------------
(* Organization Billing Record *)

\* An update sets the fields it names and leaves the others.
ApplyUpdate(rec, updates) ==
    [f \in DOMAIN rec |-> IF f \in DOMAIN updates THEN updates[f] ELSE rec[f]]

get_billing_by_subscription(rec, sub) ==
    sub # "none" /\ rec.stripe_subscription_id = sub

get_by_stripe_customer(rec, customer) ==
    rec.stripe_customer_id = customer

---------------------------------------------------------------------------
(* Plan Inference Engine *)

MappedPlan(items) == IF items \in Plans THEN items ELSE "none"

\* Faulty variant: the line-item rule comes first.
infer_items_first(current, pending, is_renewal, items_changed, items) ==
    IF items_changed /\ MappedPlan(items) # "none" /\ MappedPlan(items) # current
    THEN [plan |-> MappedPlan(items), changed |-> TRUE, should_clear_pending |-> FALSE]
    ELSE IF pending # "none" /\ is_renewal
    THEN [plan |-> pending, changed |-> TRUE, should_clear_pending |-> TRUE]
    ELSE [plan |-> current, changed |-> FALSE, should_clear_pending |-> FALSE]

infer_plan_from_webhook(current, pending, is_renewal, items_changed, items) ==
    IF pending # "none" /\ is_renewal
    THEN [plan |-> pending, changed |-> TRUE, should_clear_pending |-> TRUE]
    ELSE IF items_changed /\ MappedPlan(items) # "none" /\ MappedPlan(items) # current
    THEN [plan |-> MappedPlan(items), changed |-> TRUE, should_clear_pending |-> FALSE]
    ELSE [plan |-> current, changed |-> FALSE, should_clear_pending |-> FALSE]

compare_plans(old, new) ==
    IF PlanRank(new) > PlanRank(old) THEN "upgrade"
    ELSE IF PlanRank(new) < PlanRank(old) THEN "downgrade"
    ELSE "same"

should_create_new_period(kind, plan_changed, change_type) ==
    kind = "renewal" \/ plan_changed

determine_period_transition(old, new, is_first_period) ==
    IF is_first_period THEN "initial_signup"
    ELSE IF compare_plans(old, new) = "upgrade" THEN "upgrade"
    ELSE IF compare_plans(old, new) = "downgrade" THEN "downgrade"
    ELSE "renewal"

---------------------------------------------------------------------------
(* Webhook events: the fields of event.data.object the handlers read, and   *)
(* the answers the payment processor gives to the calls a handler makes.    *)

YearDays == 365

\* The subscription's period as the processor reports it: its first period,
\* and the one a renewal opens at the end of the first.
Ranges == {<<0, 1>>, <<1, 2>>}

\* The processor period that starts a year after the first one.
YearLater == <<YearDays, YearDays + 1>>

E0 ==
    [type |-> "none", org |-> TRUE, sub |-> "sub_1", customer |-> "cus_1",
     plan |-> "none", items |-> "none", renewal |-> FALSE, items_changed |-> FALSE,
     status |-> "active", cancel |-> FALSE, cps |-> 0, cpe |-> 0,
     reason |-> "none", invoice_sub |-> TRUE, mode |-> "none", meta |-> "ok",
     swap |-> "ok", pi |-> "settled", side |-> "ok",
     found |-> "all", lookup |-> "ok", db |-> "ok"]

SubscriptionCreatedEvents ==
    {[E0 EXCEPT !.type = "customer.subscription.created", !.plan = p,
                !.cps = r[1], !.cpe = r[2]] :
        p \in {"none", "developer"}, r \in Ranges}
    \cup {[E0 EXCEPT !.type = "customer.subscription.created", !.side = "fail",
                     !.cps = r[1], !.cpe = r[2]] : r \in Ranges}
    \cup {[E0 EXCEPT !.type = "customer.subscription.created", !.org = FALSE]}
    \cup {[E0 EXCEPT !.type = "customer.subscription.created", !.found = f] :
             f \in {"no_billing", "no_org"}}

\* Renewals and immediate changes of an active subscription, the update that
\* reports the subscription past due and set to cancel, and the renewal that
\* comes a year after the first period.
SubscriptionUpdatedEvents ==
    {[E0 EXCEPT !.type = "customer.subscription.updated", !.renewal = rn,
                !.items_changed = (it # "none"), !.items = it,
                !.cps = r[1], !.cpe = r[2], !.swap = sw] :
        rn \in BOOLEAN, it \in {"none", "team"},
        r \in Ranges, sw \in {"ok", "test_clock", "error", "no_price"}}
    \cup {[E0 EXCEPT !.type = "customer.subscription.updated", !.status = "past_due",
                     !.cancel = TRUE, !.cps = r[1], !.cpe = r[2]] : r \in Ranges}
    \cup {[E0 EXCEPT !.type = "customer.subscription.updated", !.renewal = TRUE,
                     !.side = "fail", !.cps = r[1], !.cpe = r[2]] : r \in Ranges}
    \cup {[E0 EXCEPT !.type = "customer.subscription.updated", !.renewal = TRUE,
                     !.cps = YearLater[1], !.cpe = YearLater[2]]}
    \cup {[E0 EXCEPT !.type = "customer.subscription.updated", !.sub = "sub_x"],
          [E0 EXCEPT !.type = "customer.subscription.updated", !.found = "no_org"]}

SubscriptionDeletedEvents ==
    {[E0 EXCEPT !.type = "customer.subscription.deleted", !.status = st] :
        st \in {"canceled", "active"}}
    \cup {[E0 EXCEPT !.type = "customer.subscription.deleted", !.sub = "sub_x",
                     !.status = "canceled"]}

PaymentSucceededEvents ==
    {[E0 EXCEPT !.type = "invoice.payment_succeeded", !.side = sd] : sd \in {"ok", "fail"}}
    \cup {[E0 EXCEPT !.type = "invoice.paid"],
          [E0 EXCEPT !.type = "invoice.payment_succeeded", !.invoice_sub = FALSE],
          [E0 EXCEPT !.type = "invoice.paid", !.invoice_sub = FALSE],
          [E0 EXCEPT !.type = "invoice.payment_succeeded", !.customer = "cus_x"],
          [E0 EXCEPT !.type = "invoice.payment_succeeded", !.found = "no_org"],
          [E0 EXCEPT !.type = "invoice.payment_succeeded", !.lookup = "raises"]}

PaymentFailedEvents ==
    {[E0 EXCEPT !.type = "invoice.payment_failed", !.reason = rs] :
        rs \in {"subscription_cycle", "subscription_update"}}
    \cup {[E0 EXCEPT !.type = "invoice.payment_failed", !.invoice_sub = FALSE],
          [E0 EXCEPT !.type = "invoice.payment_failed", !.customer = "cus_x"]}

\* Metadata of a checkout session that lacks one of the fields the finalizer
\* requires.
Incomplete == {"no_organization_id", "no_plan", "no_coupon_id", "no_payment_intent"}

\* The plan bought and the processor's answers to the finalizer's calls, all
\* plain or one of them not:
\* <<plan, price switch or creation, payment intent, best-effort side calls>>.
Prepayments ==
    {<<"pro", "ok", "settled", "ok">>, <<"team", "ok", "settled", "ok">>,
     <<"pro", "error", "settled", "ok">>, <<"pro", "no_price", "settled", "ok">>,
     <<"pro", "ok", "none", "ok">>, <<"pro", "ok", "settled", "fail">>}

CheckoutCompletedEvents ==
    {[E0 EXCEPT !.type = "checkout.session.completed", !.mode = "payment",
                !.plan = a[1], !.swap = a[2], !.pi = a[3], !.side = a[4]] :
        a \in Prepayments}
    \cup {[E0 EXCEPT !.type = "checkout.session.completed", !.mode = "payment",
                     !.plan = IF m = "no_plan" THEN "none" ELSE "pro", !.meta = m] :
             m \in {"absent", "other_type"} \cup Incomplete}
    \cup {[E0 EXCEPT !.type = "checkout.session.completed", !.mode = "payment",
                     !.plan = "pro", !.found = f] : f \in {"no_billing", "no_org"}}
    \cup {[E0 EXCEPT !.type = "checkout.session.completed", !.mode = "payment",
                     !.plan = "pro", !.db = "bookkeeping"]}
    \cup {[E0 EXCEPT !.type = "checkout.session.completed", !.mode = "subscription"]}

OtherEvents ==
    {[E0 EXCEPT !.type = t] :
        t \in {"invoice.upcoming", "customer.updated"}}

\* What a handler invocation leaves behind.
Out(rec, ps, outcome, calls) ==
    [record |-> rec, periods |-> ps, outcome |-> outcome, calls |-> calls]

\* Faulty variants of the lookups: the row is taken to be there.
OrganizationAssumed(ev) == TRUE

\* crud.organization.get(...) finds the organization.
OrganizationFound(ev) == ev.found # "no_org"

\* The lookup of the billing record by organization id finds it.
BillingFound(ev) == ev.found # "no_billing"

---------------------------------------------------------------------------
(* customer.subscription.created *)

MetadataPlan(ev) == IF ev.plan = "none" THEN "pro" ELSE ev.plan

SubscriptionCreatedUpdates(ev) ==
    [stripe_subscription_id |-> ev.sub,
     billing_plan |-> MetadataPlan(ev),
     billing_status |-> "active",
     current_period_start |-> ev.cps,
     current_period_end |-> ev.cpe,
     grace_period_ends_at |-> NoTime]

SubscriptionCreatedCalls(ev) ==
    IF MetadataPlan(ev) = "developer" THEN {}
    ELSE {"notify_subscription"}
         \cup (IF MetadataPlan(ev) = "team" THEN {"team_welcome_email"} ELSE {})

\* _notify_donke_subscription, _send_team_welcome_email:
\* except Exception as e: log.warning(...)
NotifyRaises(ev) == FALSE

_handle_subscription_created(rec, ps, ev, t) ==
    IF ~ev.org THEN Out(rec, ps, "dropped", {})
    ELSE IF ~BillingFound(ev) THEN Out(rec, ps, "dropped", {})
    ELSE IF ~OrganizationFound(ev) THEN Out(rec, ps, "dropped", {})
    ELSE LET rec1 == ApplyUpdate(rec, SubscriptionCreatedUpdates(ev)) IN
         IF CreateFails(ps) THEN Out(rec1, ps, "raised", {})
         ELSE IF SubscriptionCreatedCalls(ev) # {} /\ NotifyRaises(ev)
         THEN Out(rec1,
                  create_billing_period(ps, MetadataPlan(ev), ev.cps, ev.cpe,
                                        "initial_signup", "active", 0),
                  "raised", SubscriptionCreatedCalls(ev))
         ELSE Out(rec1,
                  create_billing_period(ps, MetadataPlan(ev), ev.cps, ev.cpe,
                                        "initial_signup", "active", 0),
                  "done", SubscriptionCreatedCalls(ev))

---------------------------------------------------------------------------
(* customer.subscription.updated *)

\* Faulty variant: the pending plan is given to inference whatever its date.
PendingAlways(billing, ev) == billing.pending_plan_change

\* Only a pending plan whose effective date has come is given to inference.
PendingToApply(billing, ev) ==
    IF billing.pending_plan_change # "none"
       /\ billing.pending_plan_change_at # NoTime
       /\ ev.cps >= billing.pending_plan_change_at
    THEN billing.pending_plan_change
    ELSE "none"

\* Faulty variant: the pending plan is never handed to inference.
InferredWithoutPending(billing, ev) ==
    infer_plan_from_webhook(billing.billing_plan, "none",
                            ev.renewal, ev.items_changed, ev.items)

\* Faulty variant: every update is given to inference as a renewal.
InferredAsRenewal(billing, ev) ==
    infer_plan_from_webhook(billing.billing_plan, PendingToApply(billing, ev),
                            TRUE, ev.items_changed, ev.items)

Inferred(billing, ev) ==
    infer_plan_from_webhook(billing.billing_plan, PendingToApply(billing, ev),
                            ev.renewal, ev.items_changed, ev.items)

\* The guard of the price switch, the same at every place it is written.
SwitchesPrice(billing, ev) ==
    ev.renewal /\ Inferred(billing, ev).changed
    /\ Inferred(billing, ev).should_clear_pending

\* The price switch is issued only when the plan has a price.
SwitchIssued(billing, ev) == SwitchesPrice(billing, ev) /\ ev.swap # "no_price"

\* The discount of a yearly prepayment is removed once the switch went through.
RemovesDiscount(billing, ev) ==
    SwitchesPrice(billing, ev) /\ ev.swap = "ok" /\ billing.has_yearly_prepay

\* try: remove_subscription_discount(...) except Exception: pass
DiscountRemovalRaises(billing, ev) == FALSE

\* Faulty variant: the `return` after the failed switch is missing.
SwitchNeverAborts(billing, ev) == FALSE

\* The handler returns at once on a failure that is not the test-clock one.
SwitchAborts(billing, ev) ==
    \/ SwitchesPrice(billing, ev) /\ ev.swap = "error"
    \/ DiscountRemovalRaises(billing, ev)

\* Faulty variant: the sandbox-clock error counts as a failed switch.
SwitchSucceededOnly(billing, ev) ==
    SwitchesPrice(billing, ev) /\ ev.swap = "ok"

stripe_update_successful(billing, ev) ==
    SwitchesPrice(billing, ev) /\ ev.swap \in {"ok", "test_clock"}

SubscriptionUpdatedCalls(billing, ev) ==
    (IF SwitchIssued(billing, ev) THEN {"update_subscription"} ELSE {})
    \cup (IF RemovesDiscount(billing, ev) THEN {"remove_subscription_discount"} ELSE {})

final_plan_for_period(billing, ev) ==
    IF SwitchesPrice(billing, ev) /\ ~stripe_update_successful(billing, ev)
    THEN billing.billing_plan
    ELSE Inferred(billing, ev).plan

CreatesPeriod(billing, ev) ==
    should_create_new_period(IF ev.renewal THEN "renewal" ELSE "immediate_change",
                             final_plan_for_period(billing, ev) # billing.billing_plan,
                             compare_plans(billing.billing_plan,
                                           final_plan_for_period(billing, ev)))

at_dt(ev, t) == IF ev.renewal THEN ev.cps ELSE t

UpdatedPeriod(billing, ps, ev, t) ==
    create_billing_period(ps, final_plan_for_period(billing, ev), at_dt(ev, t), ev.cpe,
        determine_period_transition(billing.billing_plan,
                                    final_plan_for_period(billing, ev), FALSE),
        "active", get_current_billing_period(ps, at_dt(ev, t)))

final_plan(billing, ev) ==
    IF SwitchesPrice(billing, ev) /\ ~stripe_update_successful(billing, ev)
    THEN billing.billing_plan
    ELSE Inferred(billing, ev).plan

UpdatedBillingPlan(billing, ev) ==
    IF ev.renewal \/ (ev.items_changed /\ Inferred(billing, ev).changed)
    THEN Inferred(billing, ev).plan
    ELSE final_plan(billing, ev)

\* Faulty variant: the pending change is never cleared.
ClearPendingNever(billing, ev) == <<>>

ClearPending(billing, ev) ==
    IF ev.renewal /\ Inferred(billing, ev).should_clear_pending
    THEN [pending_plan_change |-> "none", pending_plan_change_at |-> NoTime]
    ELSE <<>>

YearlyPrepayCleared ==
    [has_yearly_prepay |-> FALSE,
     yearly_prepay_expires_at |-> NoTime,
     yearly_prepay_started_at |-> NoTime,
     yearly_prepay_amount_cents |-> "none",
     yearly_prepay_coupon_id |-> "none",
     yearly_prepay_payment_intent_id |-> "none"]

\* Faulty variant: the prepayment lasts through the renewal at its expiry.
ClearYearlyPrepayAfterExpiry(current, ev) ==
    IF current.has_yearly_prepay
       /\ current.yearly_prepay_expires_at # NoTime
       /\ ev.cps > current.yearly_prepay_expires_at
    THEN YearlyPrepayCleared
    ELSE <<>>

ClearYearlyPrepay(current, ev) ==
    IF current.has_yearly_prepay
       /\ current.yearly_prepay_expires_at # NoTime
       /\ ev.cps >= current.yearly_prepay_expires_at
    THEN YearlyPrepayCleared
    ELSE <<>>

Merge(u, v) ==
    [f \in DOMAIN u \cup DOMAIN v |-> IF f \in DOMAIN v THEN v[f] ELSE u[f]]

SubscriptionUpdatedUpdates(billing, current, ev) ==
    Merge(Merge([billing_plan |-> UpdatedBillingPlan(billing, ev),
                 billing_status |-> ev.status,
                 cancel_at_period_end |-> ev.cancel,
                 current_period_start |-> ev.cps,
                 current_period_end |-> ev.cpe],
                ClearPending(billing, ev)),
          ClearYearlyPrepay(current, ev))

_handle_subscription_updated(rec, ps, ev, t) ==
    IF ~get_billing_by_subscription(rec, ev.sub) THEN Out(rec, ps, "dropped", {})
    ELSE IF ~OrganizationFound(ev) THEN Out(rec, ps, "dropped", {})
    ELSE IF SwitchAborts(rec, ev)
    THEN Out(rec, ps, "aborted", SubscriptionUpdatedCalls(rec, ev))
    ELSE IF CreatesPeriod(rec, ev) /\ CreateFails(ps)
    THEN Out(rec, ps, "raised", SubscriptionUpdatedCalls(rec, ev))
    ELSE Out(ApplyUpdate(rec, SubscriptionUpdatedUpdates(rec, rec, ev)),
             IF CreatesPeriod(rec, ev) THEN UpdatedPeriod(rec, ps, ev, t) ELSE ps,
             "done", SubscriptionUpdatedCalls(rec, ev))

---------------------------------------------------------------------------
(* customer.subscription.deleted *)

\* Faulty variant: the pending plan is ignored.
CancellationKeepsPlan(billing) == billing.billing_plan

\* billing.pending_plan_change or billing.billing_plan
CancellationPlan(billing) ==
    IF billing.pending_plan_change # "none" THEN billing.pending_plan_change
    ELSE billing.billing_plan

\* Faulty variant: the canceled subscription stays on the record.
CanceledKeepsSubscription(billing) ==
    [billing_status |-> "active",
     billing_plan |-> CancellationPlan(billing),
     cancel_at_period_end |-> FALSE,
     pending_plan_change |-> "none",
     pending_plan_change_at |-> NoTime]

CanceledUpdates(billing) ==
    [billing_status |-> "active",
     billing_plan |-> CancellationPlan(billing),
     stripe_subscription_id |-> "none",
     cancel_at_period_end |-> FALSE,
     pending_plan_change |-> "none",
     pending_plan_change_at |-> NoTime]

\* Faulty variant: scheduling the cancellation also drops the pending change.
ScheduledCancelClearsPending ==
    [cancel_at_period_end |-> TRUE, pending_plan_change |-> "none",
     pending_plan_change_at |-> NoTime]

\* Just scheduled to cancel.
ScheduledCancelUpdates == [cancel_at_period_end |-> TRUE]

\* Faulty variant: the cancellation leaves the ledger alone.
CancellationLeavesPeriod(ps, t) == ps

CompleteFinalPeriod(ps, t) ==
    IF get_current_billing_period(ps, t) # 0
    THEN complete_billing_period(ps, get_current_billing_period(ps, t), "completed")
    ELSE ps

_handle_subscription_deleted(rec, ps, ev, t) ==
    IF ~get_billing_by_subscription(rec, ev.sub) THEN Out(rec, ps, "dropped", {})
    ELSE IF ~OrganizationFound(ev) THEN Out(rec, ps, "dropped", {})
    ELSE IF ev.status = "canceled"
    THEN Out(ApplyUpdate(rec, CanceledUpdates(rec)), CompleteFinalPeriod(ps, t), "done", {})
    ELSE Out(ApplyUpdate(rec, ScheduledCancelUpdates), ps, "done", {})

---------------------------------------------------------------------------
(* invoice.payment_succeeded, invoice.paid *)

\* Faulty variant: invoices without a subscription are handled like the others.
OneTimeHandled(ev) == FALSE

\* if not invoice.subscription: return  -- a one-time payment
OneTimePayment(ev) == ~ev.invoice_sub

\* Faulty variant: past_due is never cleared.
PaymentSucceededKeepsStatus(billing_model) == [last_payment_status |-> "succeeded"]

\* Faulty variant: the recovery also ends the grace window on the record.
PaymentSucceededClearsGrace(billing_model) ==
    IF billing_model.billing_status = "past_due"
    THEN [last_payment_status |-> "succeeded", billing_status |-> "active",
          grace_period_ends_at |-> NoTime]
    ELSE [last_payment_status |-> "succeeded"]

PaymentSucceededUpdates(billing_model) ==
    IF billing_model.billing_status = "past_due"
    THEN [last_payment_status |-> "succeeded", billing_status |-> "active"]
    ELSE [last_payment_status |-> "succeeded"]

\* except Exception: pass  (best effort; do not fail webhook)
StampFailureRaises(ps, ev, t) == FALSE

\* Best effort: the period current now, if Active or Grace, gets the invoice's id.
StampPeriod(ps, ev, t) ==
    IF get_current_billing_period(ps, t) # 0
       /\ Live(ps[get_current_billing_period(ps, t)])
       /\ ev.side = "ok"
    THEN [ps EXCEPT ![get_current_billing_period(ps, t)].stripe_invoice_id = "in_1"]
    ELSE ps

_handle_payment_succeeded(rec, ps, ev, t) ==
    IF OneTimePayment(ev) THEN Out(rec, ps, "dropped", {})
    ELSE IF ~get_by_stripe_customer(rec, ev.customer) THEN Out(rec, ps, "dropped", {})
    ELSE IF ~OrganizationFound(ev) THEN Out(rec, ps, "dropped", {})
    ELSE IF StampFailureRaises(ps, ev, t)
    THEN Out(ApplyUpdate(rec, PaymentSucceededUpdates(rec)), ps, "raised", {})
    ELSE Out(ApplyUpdate(rec, PaymentSucceededUpdates(rec)), StampPeriod(ps, ev, t),
             "done", {})

---------------------------------------------------------------------------
(* invoice.payment_failed *)

\* Faulty variant: the grace window has no length.
grace_end_now(t) == t

grace_end(t) == t + GraceDays

\* Faulty variant: the billing reason is not looked at.
OpensGraceAnyReason(ps, ev, t) == get_current_billing_period(ps, t) # 0

OpensGrace(ps, ev, t) ==
    ev.reason = "subscription_cycle" /\ get_current_billing_period(ps, t) # 0

PaymentFailedUpdates(ps, ev, t) ==
    IF OpensGrace(ps, ev, t)
    THEN [last_payment_status |-> "failed", billing_status |-> "past_due",
          grace_period_ends_at |-> grace_end(t)]
    ELSE [last_payment_status |-> "failed", billing_status |-> "past_due"]

EndUnpaid(ps, t) ==
    complete_billing_period(ps, get_current_billing_period(ps, t), "ended_unpaid")

\* Faulty variant: the Grace period is linked to itself.
GracePreviousSelf(ps, t) == Len(ps) + 1

\* previous_period_id=current_period.id
GracePrevious(ps, t) == get_current_billing_period(ps, t)

GracePeriod(ps, t) ==
    create_billing_period(EndUnpaid(ps, t),
        ps[get_current_billing_period(ps, t)].plan,
        ps[get_current_billing_period(ps, t)].period_end,
        grace_end(t), "renewal", "grace", GracePrevious(ps, t))

_handle_payment_failed(rec, ps, ev, t) ==
    IF OneTimePayment(ev) THEN Out(rec, ps, "dropped", {})
    ELSE IF ~get_by_stripe_customer(rec, ev.customer) THEN Out(rec, ps, "dropped", {})
    ELSE IF ~OrganizationFound(ev) THEN Out(rec, ps, "dropped", {})
    ELSE IF ~OpensGrace(ps, ev, t)
    THEN Out(ApplyUpdate(rec, PaymentFailedUpdates(ps, ev, t)), ps, "done", {})
    ELSE IF CreateFails(EndUnpaid(ps, t))
    THEN Out(rec, EndUnpaid(ps, t), "raised", {})
    ELSE Out(ApplyUpdate(rec, PaymentFailedUpdates(ps, ev, t)), GracePeriod(ps, t),
             "done", {})

---------------------------------------------------------------------------
(* checkout.session.completed: the yearly prepay finalizer *)

PrepayCredits(ev) ==
    IF ev.pi = "settled" THEN {"credit_customer_balance"} ELSE {}

\* Faulty variant: a subscription is created whatever the record carries.
PrepayAlwaysCreates(billing) == {"create_subscription"}

PrepaySubscriptionCalls(billing) ==
    IF billing.stripe_subscription_id # "none"
    THEN {"apply_coupon_to_subscription", "update_subscription"}
    ELSE {"create_subscription"}

PrepayNotifies(ev) ==
    {"notify_subscription"} \cup (IF ev.plan = "team" THEN {"team_welcome_email"} ELSE {})

PrepaySubscriptionId(billing) ==
    IF billing.stripe_subscription_id # "none" THEN billing.stripe_subscription_id
    ELSE "sub_1"

expires_at(ev) == ev.cps + YearDays

\* update_billing_by_org: the subscription and the plan.
PrepayUpdates(billing, ev) ==
    [stripe_subscription_id |-> PrepaySubscriptionId(billing),
     billing_plan |-> ev.plan]

\* record_yearly_prepay_finalized: the prepay bookkeeping, a write of its own.
record_yearly_prepay_finalized(rec, ev) ==
    ApplyUpdate(rec, [has_yearly_prepay |-> TRUE,
                      yearly_prepay_expires_at |-> expires_at(ev),
                      yearly_prepay_coupon_id |-> "coupon_1",
                      yearly_prepay_payment_intent_id |-> "pi_1"])

\* The bookkeeping write fails.
BookkeepingFails(ev) == ev.db = "bookkeeping"

\* Faulty variant: the notifications go out before the record is written.
NotifiesBeforeWrites(billing, ev) ==
    PrepayCredits(ev) \cup PrepaySubscriptionCalls(billing) \cup PrepayNotifies(ev)

\* The calls the finalizer has made when it comes to write the record.
PrepayCallsBeforeWrites(billing, ev) ==
    PrepayCredits(ev) \cup PrepaySubscriptionCalls(billing)

\* Faulty variant: a failed balance credit ends the finalizer.
CreditFailurePropagates(ev) == ev.pi = "settled" /\ ev.side = "fail"

\* try: credit_customer_balance(...) except Exception as e: log.warning(...)
CreditFailureRaises(ev) == FALSE

\* if not getattr(session, "metadata", None): return
MetadataAbsent(ev) == ev.meta = "absent"

\* session.metadata.get("type") == "yearly_prepay"
IsYearlyPrepay(ev) == ev.meta # "other_type"

\* Faulty variant: the coupon is not among the required fields.
CouponNotRequired(ev) ==
    ev.meta \notin {"no_organization_id", "no_plan", "no_payment_intent"}

\* org_id_str and plan_str and coupon_id and payment_intent_id
RequiredMetadata(ev) == ev.meta \notin Incomplete

_finalize_yearly_prepay(rec, ps, ev, t) ==
    IF MetadataAbsent(ev) THEN Out(rec, ps, "dropped", {})
    ELSE IF ~IsYearlyPrepay(ev) THEN Out(rec, ps, "dropped", {})
    ELSE IF ~RequiredMetadata(ev) THEN Out(rec, ps, "dropped", {})
    ELSE IF ~OrganizationFound(ev) THEN Out(rec, ps, "dropped", {})
    ELSE IF ~BillingFound(ev) THEN Out(rec, ps, "dropped", {})
    ELSE IF CreditFailureRaises(ev) THEN Out(rec, ps, "raised", PrepayCredits(ev))
    ELSE IF ev.swap = "no_price" THEN Out(rec, ps, "done", PrepayCredits(ev))
    ELSE IF ev.swap = "error"
    THEN Out(rec, ps, "raised", PrepayCallsBeforeWrites(rec, ev))
    ELSE IF BookkeepingFails(ev)
    THEN Out(ApplyUpdate(rec, PrepayUpdates(rec, ev)), ps, "raised",
             PrepayCallsBeforeWrites(rec, ev))
    ELSE IF NotifyRaises(ev)
    THEN Out(record_yearly_prepay_finalized(ApplyUpdate(rec, PrepayUpdates(rec, ev)), ev),
             ps, "raised", PrepayCallsBeforeWrites(rec, ev) \cup PrepayNotifies(ev))
    ELSE Out(record_yearly_prepay_finalized(ApplyUpdate(rec, PrepayUpdates(rec, ev)), ev),
             ps, "done", PrepayCallsBeforeWrites(rec, ev) \cup PrepayNotifies(ev))

_handle_checkout_completed(rec, ps, ev, t) ==
    IF ev.mode = "payment" THEN _finalize_yearly_prepay(rec, ps, ev, t)
    ELSE Out(rec, ps, "done", {})

---------------------------------------------------------------------------
(* The router *)

HandledTypes ==
    {"customer.subscription.created", "customer.subscription.updated",
     "customer.subscription.deleted", "invoice.payment_succeeded", "invoice.paid",
     "invoice.payment_failed", "invoice.upcoming", "checkout.session.completed",
     "payment_intent.succeeded"}

\* What process_event does with an event: the handler's effect, and whether the
\* call ends by raising to the delivery layer.
Dispatch(rec, ps, ev, t) ==
    CASE ev.type = "customer.subscription.created" ->
            _handle_subscription_created(rec, ps, ev, t)
      [] ev.type = "customer.subscription.updated" ->
            _handle_subscription_updated(rec, ps, ev, t)
      [] ev.type = "customer.subscription.deleted" ->
            _handle_subscription_deleted(rec, ps, ev, t)
      [] ev.type \in {"invoice.payment_succeeded", "invoice.paid"} ->
            _handle_payment_succeeded(rec, ps, ev, t)
      [] ev.type = "invoice.payment_failed" ->
            _handle_payment_failed(rec, ps, ev, t)
      [] ev.type = "checkout.session.completed" ->
            _handle_checkout_completed(rec, ps, ev, t)
      [] ev.type \in {"invoice.upcoming", "payment_intent.succeeded"} ->
            Out(rec, ps, "done", {})

\* Faulty variant: an unknown event type is an error.
UnhandledRaises(rec, ps) == Out(rec, ps, "raised", {})

\* else: log.info("Unhandled webhook event type")
Unhandled(rec, ps) == Out(rec, ps, "unhandled", {})

\* Faulty variant: the router logs the handler's exception and goes on.
Swallow(out) == IF out.outcome = "raised" THEN [out EXCEPT !.outcome = "done"] ELSE out

\* except Exception: log.error(...); raise
Reraise(out) == out

\* The organization the logger is bound to, "none" when none was resolved:
\* from the metadata, else from the record found by subscription or customer.
_create_context_logger(rec, ev) ==
    IF ev.type \in {"customer.subscription.created", "checkout.session.completed"}
       /\ ev.org /\ ev.meta \notin {"absent", "no_organization_id"}
    THEN "org_1"
    ELSE IF ev.lookup = "raises" THEN "none"
    ELSE IF ev.type \in {"customer.subscription.created", "customer.subscription.updated",
                          "customer.subscription.deleted"}
    THEN (IF get_billing_by_subscription(rec, ev.sub) THEN "org_1" ELSE "none")
    ELSE (IF get_by_stripe_customer(rec, ev.customer) THEN "org_1" ELSE "none")

\* Faulty variant: a failing lookup ends the call.
ContextLookupPropagates(ev) == ev.lookup = "raises"

\* The lookup's exception is caught in _create_context_logger.
ContextLoggerRaises(ev) == FALSE

process_event(rec, ps, ev, t) ==
    IF ContextLoggerRaises(ev) THEN Out(rec, ps, "raised", {})
    ELSE IF ev.type \notin HandledTypes THEN Unhandled(rec, ps)
    ELSE Reraise(Dispatch(rec, ps, ev, t))

Raises(out) == out.outcome = "raised"

---------------------------------------------------------------------------
(* The state machine.  The delivery layer hands process_event one event at  *)
(* a time; the call handles it to its end, the delivery layer answers the   *)
(* processor, and the processor may deliver the same event once more.       *)

InitRecord ==
    [stripe_customer_id |-> "cus_1",
     stripe_subscription_id |-> "none",
     billing_plan |-> "developer",
     billing_status |-> "active",
     current_period_start |-> NoTime,
     current_period_end |-> NoTime,
     cancel_at_period_end |-> FALSE,
     pending_plan_change |-> "none",
     pending_plan_change_at |-> NoTime,
     grace_period_ends_at |-> NoTime,
     has_yearly_prepay |-> FALSE,
     yearly_prepay_expires_at |-> NoTime,
     yearly_prepay_started_at |-> NoTime,
     yearly_prepay_amount_cents |-> "none",
     yearly_prepay_coupon_id |-> "none",
     yearly_prepay_payment_intent_id |-> "none",
     last_payment_status |-> "none"]

Snapshot(rec, ps) == [record |-> rec, periods |-> ps]

NoLast ==
    [ev |-> E0, at |-> 0, outcome |-> "none", calls |-> {}, replay |-> FALSE,
     first |-> "none", earlier |-> {}, context |-> "none"]

Idle == last.outcome = "none"

Init ==
    /\ record = InitRecord
    /\ periods = <<>>
    /\ now = 0
    /\ last = NoLast
    /\ pre = Snapshot(InitRecord, <<>>)
    /\ delivered = 0
    /\ tasks = <<>>
    /\ base = Snapshot(InitRecord, <<>>)
    /\ NoVerification

\* An event names a subscription or a customer the record carries, or one it
\* does not: a handler that finds no record reads nothing else of the event.
Addressed(ev) ==
    ev.type \in {"customer.subscription.updated", "customer.subscription.deleted"}
        => (ev.sub = "sub_x" \/ get_billing_by_subscription(record, ev.sub))

\* A processor answer other than the plain one is drawn only for a call the
\* handler makes.
AnswersAsked(ev) ==
    /\ ev.swap # "ok" =>
          \/ ev.type = "checkout.session.completed"
          \/ /\ ev.type = "customer.subscription.updated"
             /\ get_billing_by_subscription(record, ev.sub)
             /\ SwitchesPrice(record, ev)
    /\ ev.side # "ok" =>
          \/ ev.type = "checkout.session.completed"
          \/ /\ ev.type = "customer.subscription.created"
             /\ SubscriptionCreatedCalls(ev) # {}
          \/ /\ ev.type = "customer.subscription.updated"
             /\ get_billing_by_subscription(record, ev.sub)
             /\ RemovesDiscount(record, ev)
          \/ /\ ev.type \in {"invoice.payment_succeeded", "invoice.paid"}
             /\ get_by_stripe_customer(record, ev.customer)
             /\ get_current_billing_period(periods, now) # 0
             /\ Live(periods[get_current_billing_period(periods, now)])

Handle(ev, replay) ==
    \E out \in {process_event(record, periods, ev, now)} :
    /\ Len(out.periods) <= MaxPeriods
    /\ record' = out.record
    /\ periods' = out.periods
    /\ last' = [ev |-> ev, at |-> now, outcome |-> out.outcome, calls |-> out.calls,
                replay |-> replay, first |-> last.outcome,
                earlier |-> IF replay THEN last.calls ELSE {},
                context |-> _create_context_logger(record, ev)]
    /\ pre' = Snapshot(record, periods)
    /\ UNCHANGED <<now, tasks, base, verify_vars>>

Deliver(ev) ==
    /\ Idle
    /\ delivered < MaxEvents
    /\ Addressed(ev)
    /\ AnswersAsked(ev)
    /\ delivered' = delivered + 1
    /\ Handle(ev, FALSE)

SubscriptionCreated == \E ev \in SubscriptionCreatedEvents : Deliver(ev)

SubscriptionUpdated == \E ev \in SubscriptionUpdatedEvents : Deliver(ev)

SubscriptionDeleted == \E ev \in SubscriptionDeletedEvents : Deliver(ev)

PaymentSucceeded == \E ev \in PaymentSucceededEvents : Deliver(ev)

PaymentFailed == \E ev \in PaymentFailedEvents : Deliver(ev)

CheckoutCompleted == \E ev \in CheckoutCompletedEvents : Deliver(ev)

OtherEvent == \E ev \in OtherEvents : Deliver(ev)

\* At-least-once delivery: the event just handled arrives once more, with the
\* same payload and the same answers from the processor.
Redeliver ==
    /\ ~Idle
    /\ ~last.replay
    /\ last.outcome \notin {"dropped", "unhandled"}
    /\ UNCHANGED delivered
    /\ Handle(last.ev, TRUE)

\* The delivery layer answers the processor and is ready for the next event.
Acknowledge ==
    /\ ~Idle
    /\ last' = NoLast
    /\ pre' = Snapshot(record, periods)
    /\ UNCHANGED <<record, periods, now, delivered, tasks, base, verify_vars>>

\* The plans a change is scheduled to: the lowest and the highest.
ScheduledPlans == {"developer", "enterprise"}

\* The billing service schedules a plan change for the next renewal boundary.
SchedulePlanChange ==
    /\ Idle
    /\ record.stripe_subscription_id # "none"
    /\ record.current_period_end # NoTime
    /\ record.pending_plan_change = "none"
    /\ \E p \in ScheduledPlans \ {record.billing_plan} :
          record' = [record EXCEPT !.pending_plan_change = p,
                                   !.pending_plan_change_at = record.current_period_end]
    /\ pre' = Snapshot(record', periods)
    /\ UNCHANGED <<periods, now, last, delivered, tasks, base, verify_vars>>

Tick ==
    /\ Idle
    /\ now < MaxTime
    /\ delivered < MaxEvents
    /\ now' = now + 1
    /\ UNCHANGED <<record, periods, last, pre, delivered, tasks, base, verify_vars>>

Next ==
    \/ SubscriptionCreated
    \/ SubscriptionUpdated
    \/ SubscriptionDeleted
    \/ PaymentSucceeded
    \/ PaymentFailed
    \/ CheckoutCompleted
    \/ OtherEvent
    \/ Redeliver
    \/ Acknowledge
    \/ SchedulePlanChange
    \/ Tick

Spec == Init /\ [][Next]_vars

---------------------------------------------------------------------------
(* Redelivery after a delay.  The processor repeats a delivery it got no    *)
(* answer to after a backoff, so the second application of an event may run *)
(* at a later wall-clock time than the first.                               *)

RedeliverLater ==
    /\ ~Idle
    /\ ~last.replay
    /\ last.outcome \notin {"dropped", "unhandled"}
    /\ now < MaxTime
    /\ now' = now + 1
    /\ \E out \in {process_event(record, periods, last.ev, now + 1)} :
          /\ Len(out.periods) <= MaxPeriods
          /\ record' = out.record
          /\ periods' = out.periods
          /\ last' = [ev |-> last.ev, at |-> now + 1, outcome |-> out.outcome,
                      calls |-> out.calls, replay |-> TRUE, first |-> last.outcome,
                      earlier |-> last.calls,
                      context |-> _create_context_logger(record, last.ev)]
    /\ pre' = Snapshot(record, periods)
    /\ UNCHANGED <<delivered, tasks, base, verify_vars>>

NextDelayed == Next \/ RedeliverLater

SpecDelayed == Init /\ [][NextDelayed]_vars

---------------------------------------------------------------------------
(* An organization that subscribed, canceled and subscribed again with a    *)
(* yearly prepayment: its ledger holds the Completed period of the first    *)
(* subscription, its record the second subscription.                        *)

FirstSubscription ==
    process_event(InitRecord, <<>>,
                  [E0 EXCEPT !.type = "customer.subscription.created",
                             !.plan = "developer", !.cps = 0, !.cpe = 1], 0)

Cancellation ==
    process_event(FirstSubscription.record, FirstSubscription.periods,
                  [E0 EXCEPT !.type = "customer.subscription.deleted",
                             !.status = "canceled"], 0)

Resubscription ==
    process_event(Cancellation.record, Cancellation.periods,
                  [E0 EXCEPT !.type = "checkout.session.completed",
                             !.mode = "payment", !.plan = "pro"], 0)

InitResubscribed ==
    /\ record = Resubscription.record
    /\ periods = Resubscription.periods
    /\ now = 0
    /\ last = NoLast
    /\ pre = Snapshot(Resubscription.record, Resubscription.periods)
    /\ delivered = 0
    /\ tasks = <<>>
    /\ base = Snapshot(Resubscription.record, Resubscription.periods)
    /\ NoVerification

SpecResubscribed == InitResubscribed /\ [][Next]_vars

---------------------------------------------------------------------------
(* Concurrent invocations.  Every delivery runs process_event in a task of  *)
(* its own; a task gives way to the others at each await.  Two invoice      *)
(* events of one organization are handled here, a step of the model being   *)
(* what a handler does from one await to the next, and each ledger or       *)
(* record operation taking effect at once.                                  *)

Invocations == 1..2

SubscribedRecord(st) ==
    [InitRecord EXCEPT !.stripe_subscription_id = "sub_1", !.billing_plan = "pro",
                       !.billing_status = st, !.current_period_start = 0,
                       !.current_period_end = 1]

FirstPeriod == NewPeriod("pro", 0, 1, "initial_signup", "active", 0)

ConcurrentEvents ==
    {[E0 EXCEPT !.type = "invoice.payment_succeeded"],
     [E0 EXCEPT !.type = "invoice.payment_failed", !.reason = "subscription_cycle"],
     [E0 EXCEPT !.type = "invoice.payment_failed", !.reason = "subscription_update"]}

Task(ev) ==
    [ev |-> ev, pc |-> "start", billing_model |-> InitRecord, current_period |-> 0,
     grace |-> FALSE]

InitConcurrent ==
    /\ \E st \in {"active", "past_due"} :
          /\ record = SubscribedRecord(st)
          /\ base = Snapshot(SubscribedRecord(st), <<FirstPeriod>>)
    /\ periods = <<FirstPeriod>>
    /\ now = 0
    /\ last = NoLast
    /\ pre = Snapshot(InitRecord, <<>>)
    /\ delivered = 0
    /\ \E e1 \in ConcurrentEvents, e2 \in ConcurrentEvents :
          tasks = <<Task(e1), Task(e2)>>
    /\ NoVerification

Succeeded(i) == tasks[i].ev.type = "invoice.payment_succeeded"

Failed(i) == tasks[i].ev.type = "invoice.payment_failed"

Goto(i, pc) == tasks' = [tasks EXCEPT ![i].pc = pc]

\* await crud.organization_billing.get_by_stripe_customer(...)
LookupBilling(i) ==
    /\ tasks[i].pc = "start"
    /\ tasks' = [tasks EXCEPT ![i].billing_model = record, ![i].pc = "organization"]
    /\ UNCHANGED <<record, periods, now, last, pre, delivered, base, verify_vars>>

\* await crud.organization.get(...)
GetOrganization(i) ==
    /\ tasks[i].pc = "organization"
    /\ Goto(i, IF Succeeded(i) \/ tasks[i].ev.reason # "subscription_cycle"
               THEN "update" ELSE "period")
    /\ UNCHANGED <<record, periods, now, last, pre, delivered, base, verify_vars>>

\* _handle_payment_failed: await get_current_billing_period(...)
FindCurrentPeriod(i) ==
    /\ tasks[i].pc = "period"
    /\ Failed(i)
    /\ tasks' = [tasks EXCEPT
          ![i].current_period = get_current_billing_period(periods, now),
          ![i].pc = IF get_current_billing_period(periods, now) # 0
                    THEN "complete" ELSE "update"]
    /\ UNCHANGED <<record, periods, now, last, pre, delivered, base, verify_vars>>

\* await complete_billing_period(current_period.id, ENDED_UNPAID)
CompleteCurrentPeriod(i) ==
    /\ tasks[i].pc = "complete"
    /\ periods' = complete_billing_period(periods, tasks[i].current_period, "ended_unpaid")
    /\ Goto(i, "create")
    /\ UNCHANGED <<record, now, last, pre, delivered, base, verify_vars>>

\* await create_billing_period(..., status=GRACE): raises when it fails
CreateGracePeriod(i) ==
    /\ tasks[i].pc = "create"
    /\ IF CreateFails(periods)
       THEN /\ Goto(i, "raised")
            /\ UNCHANGED periods
       ELSE /\ periods' = create_billing_period(periods,
                             periods[tasks[i].current_period].plan,
                             periods[tasks[i].current_period].period_end,
                             grace_end(now), "renewal", "grace", tasks[i].current_period)
            /\ tasks' = [tasks EXCEPT ![i].grace = TRUE, ![i].pc = "update"]
    /\ UNCHANGED <<record, now, last, pre, delivered, base, verify_vars>>

TaskUpdates(i) ==
    IF Succeeded(i) THEN PaymentSucceededUpdates(tasks[i].billing_model)
    ELSE IF tasks[i].grace
    THEN [last_payment_status |-> "failed", billing_status |-> "past_due",
          grace_period_ends_at |-> grace_end(now)]
    ELSE [last_payment_status |-> "failed", billing_status |-> "past_due"]

\* await crud.organization_billing.update(db_obj=billing_model, obj_in=updates)
UpdateBilling(i) ==
    /\ tasks[i].pc = "update"
    /\ record' = ApplyUpdate(record, TaskUpdates(i))
    /\ Goto(i, IF Succeeded(i) THEN "stamp" ELSE "done")
    /\ UNCHANGED <<periods, now, last, pre, delivered, base, verify_vars>>

\* _handle_payment_succeeded: period = await get_current_billing_period(...);
\* the stamping goes on if the period read is Active or Grace.
FindStampPeriod(i) ==
    /\ tasks[i].pc = "stamp"
    /\ Succeeded(i)
    /\ tasks' = [tasks EXCEPT
          ![i].current_period = get_current_billing_period(periods, now),
          ![i].pc = IF /\ get_current_billing_period(periods, now) # 0
                       /\ Live(periods[get_current_billing_period(periods, now)])
                    THEN "write_stamp" ELSE "done"]
    /\ UNCHANGED <<record, periods, now, last, pre, delivered, base, verify_vars>>

\* await _crud.billing_period.update(db_obj=await get(id=period.id), obj_in=...):
\* the row of the period read before is written.
StampInvoice(i) ==
    /\ tasks[i].pc = "write_stamp"
    /\ periods' = [periods EXCEPT ![tasks[i].current_period].stripe_invoice_id = "in_1"]
    /\ Goto(i, "done")
    /\ UNCHANGED <<record, now, last, pre, delivered, base, verify_vars>>

NextConcurrent ==
    \E i \in Invocations :
        \/ LookupBilling(i)
        \/ GetOrganization(i)
        \/ FindCurrentPeriod(i)
        \/ CompleteCurrentPeriod(i)
        \/ CreateGracePeriod(i)
        \/ UpdateBilling(i)
        \/ FindStampPeriod(i)
        \/ StampInvoice(i)

SpecConcurrent == InitConcurrent /\ [][NextConcurrent]_vars

---------------------------------------------------------------------------
(* Concurrent finalizations.  Two deliveries of one yearly-prepay checkout  *)
(* event run _finalize_yearly_prepay in a task each; a step is what the     *)
(* finalizer does from one await to the next.  The processor gives every    *)
(* subscription it creates an id of its own.                                *)

PrepayEvents ==
    {[E0 EXCEPT !.type = "checkout.session.completed", !.mode = "payment",
                !.plan = p, !.pi = a] :
        p \in {"pro", "team"}, a \in {"settled", "none"}}

Finalizer(ev) ==
    [ev |-> ev, pc |-> "organization", billing |-> InitRecord, credited |-> FALSE,
     sub |-> "none", created |-> FALSE]

InitFinalizers ==
    /\ \E rec \in {InitRecord, SubscribedRecord("active")} :
          /\ record = rec
          /\ base = Snapshot(rec, <<>>)
    /\ periods = <<>>
    /\ now = 0
    /\ last = NoLast
    /\ pre = Snapshot(InitRecord, <<>>)
    /\ delivered = 0
    /\ \E ev \in PrepayEvents : tasks = <<Finalizer(ev), Finalizer(ev)>>
    /\ NoVerification

\* The id the processor gives the subscription created for invocation i.
NewSubscriptionId(i) == IF i = 1 THEN "sub_2" ELSE "sub_3"

\* org = await crud.organization.get(...)
HydrateContext(i) ==
    /\ tasks[i].pc = "organization"
    /\ Goto(i, "billing")
    /\ UNCHANGED <<record, periods, now, last, pre, delivered, base, verify_vars>>

\* billing = await billing_transactions.get_billing_record(...); the payment
\* intent is retrieved without giving way.
ReadBillingRecord(i) ==
    /\ tasks[i].pc = "billing"
    /\ tasks' = [tasks EXCEPT
          ![i].billing = record,
          ![i].pc = IF PrepayCredits(tasks[i].ev) # {} THEN "credit" ELSE "subscribe"]
    /\ UNCHANGED <<record, periods, now, last, pre, delivered, base, verify_vars>>

\* await stripe_client.credit_customer_balance(...)
CreditCustomerBalance(i) ==
    /\ tasks[i].pc = "credit"
    /\ tasks' = [tasks EXCEPT ![i].credited = TRUE, ![i].pc = "subscribe"]
    /\ UNCHANGED <<record, periods, now, last, pre, delivered, base, verify_vars>>

\* if billing.stripe_subscription_id: await apply_coupon_to_subscription(...)
ApplyCoupon(i) ==
    /\ tasks[i].pc = "subscribe"
    /\ "apply_coupon_to_subscription" \in PrepaySubscriptionCalls(tasks[i].billing)
    /\ Goto(i, "switch")
    /\ UNCHANGED <<record, periods, now, last, pre, delivered, base, verify_vars>>

\* sub = await stripe_client.update_subscription(...)
SwitchSubscription(i) ==
    /\ tasks[i].pc = "switch"
    /\ tasks' = [tasks EXCEPT ![i].sub = tasks[i].billing.stripe_subscription_id,
                              ![i].pc = "persist"]
    /\ UNCHANGED <<record, periods, now, last, pre, delivered, base, verify_vars>>

\* else: sub = await stripe_client.create_subscription(...)
CreateSubscription(i) ==
    /\ tasks[i].pc = "subscribe"
    /\ "create_subscription" \in PrepaySubscriptionCalls(tasks[i].billing)
    /\ tasks' = [tasks EXCEPT ![i].sub = NewSubscriptionId(i), ![i].created = TRUE,
                              ![i].pc = "persist"]
    /\ UNCHANGED <<record, periods, now, last, pre, delivered, base, verify_vars>>

\* await update_billing_by_org(stripe_subscription_id=sub.id, billing_plan=...)
PersistSubscription(i) ==
    /\ tasks[i].pc = "persist"
    /\ record' = ApplyUpdate(record, [stripe_subscription_id |-> tasks[i].sub,
                                      billing_plan |-> tasks[i].ev.plan])
    /\ Goto(i, "bookkeeping")
    /\ UNCHANGED <<periods, now, last, pre, delivered, base, verify_vars>>

\* await billing_transactions.record_yearly_prepay_finalized(...)
RecordPrepay(i) ==
    /\ tasks[i].pc = "bookkeeping"
    /\ record' = record_yearly_prepay_finalized(record, tasks[i].ev)
    /\ Goto(i, "done")
    /\ UNCHANGED <<periods, now, last, pre, delivered, base, verify_vars>>

NextFinalizers ==
    \E i \in Invocations :
        \/ HydrateContext(i)
        \/ ReadBillingRecord(i)
        \/ CreditCustomerBalance(i)
        \/ ApplyCoupon(i)
        \/ SwitchSubscription(i)
        \/ CreateSubscription(i)
        \/ PersistSubscription(i)
        \/ RecordPrepay(i)

SpecFinalizers == InitFinalizers /\ [][NextFinalizers]_vars

---------------------------------------------------------------------------
(* VerifyStep.execute (monke/core/steps.py).  asyncio.gather runs one       *)
(* verify_with_retries coroutine per created entity on one event loop; a    *)
(* step is what a coroutine does from one await to the next.                *)

MaxEntities == 3

MaxRetries == 2

\* for i in range(max(1, attempts))
Attempts == IF verification_config.retries < 1 THEN 1 ELSE verification_config.retries

Verifier == [pc |-> "verify", i |-> 0, ok |-> FALSE, rescue_seen |-> "none"]

InitVerify ==
    /\ record = InitRecord
    /\ periods = <<>>
    /\ now = 0
    /\ last = NoLast
    /\ pre = Snapshot(InitRecord, <<>>)
    /\ delivered = 0
    /\ tasks = <<>>
    /\ base = Snapshot(InitRecord, <<>>)
    /\ \E a \in 0..MaxRetries, r \in BOOLEAN :
          verification_config = [retries |-> a, resync_on_miss |-> r]
    /\ \E n \in 1..MaxEntities : verifiers = [k \in 1..n |-> Verifier]
    /\ resync_lock = 0
    /\ resync_triggered = FALSE
    /\ rescue = [runs |-> 0, state |-> "idle"]

\* entity, ok = await verify_one(e); if ok: return entity, True
Found(k) ==
    /\ verifiers[k].pc = "verify"
    /\ verifiers' = [verifiers EXCEPT ![k].pc = "done", ![k].ok = TRUE]
    /\ UNCHANGED <<billing_vars, verification_config, resync_lock, resync_triggered,
                   rescue>>

\* the token is not in the collection: await asyncio.sleep(backoff)
Missed(k) ==
    /\ verifiers[k].pc = "verify"
    /\ verifiers' = [verifiers EXCEPT ![k].pc = "sleep"]
    /\ UNCHANGED <<billing_vars, verification_config, resync_lock, resync_triggered,
                   rescue>>

\* the next round of the for loop
Retry(k) ==
    /\ verifiers[k].pc = "sleep"
    /\ verifiers[k].i + 1 < Attempts
    /\ verifiers' = [verifiers EXCEPT ![k].pc = "verify", ![k].i = verifiers[k].i + 1]
    /\ UNCHANGED <<billing_vars, verification_config, resync_lock, resync_triggered,
                   rescue>>

\* the loop is exhausted and resync_on_miss is off: return e, False
GiveUp(k) ==
    /\ verifiers[k].pc = "sleep"
    /\ verifiers[k].i + 1 >= Attempts
    /\ ~verification_config.resync_on_miss
    /\ verifiers' = [verifiers EXCEPT ![k].pc = "done"]
    /\ UNCHANGED <<billing_vars, verification_config, resync_lock, resync_triggered,
                   rescue>>

\* the loop is exhausted: async with resync_lock
AwaitLock(k) ==
    /\ verifiers[k].pc = "sleep"
    /\ verifiers[k].i + 1 >= Attempts
    /\ verification_config.resync_on_miss
    /\ verifiers' = [verifiers EXCEPT ![k].pc = "acquire"]
    /\ UNCHANGED <<billing_vars, verification_config, resync_lock, resync_triggered,
                   rescue>>

\* Faulty variant: the lock keeps nobody out.
LockAlwaysAvailable == TRUE

\* asyncio.Lock: acquired by one task at a time.
LockAvailable == resync_lock = 0

\* if not resync_triggered: resync_triggered = True;
\* await SyncStep(...).execute(), the lock being held
TriggerResync(k) ==
    /\ verifiers[k].pc = "acquire"
    /\ LockAvailable
    /\ ~resync_triggered
    /\ resync_lock' = k
    /\ resync_triggered' = TRUE
    /\ rescue' = [runs |-> rescue.runs + 1, state |-> "running"]
    /\ verifiers' = [verifiers EXCEPT ![k].pc = "sync"]
    /\ UNCHANGED <<billing_vars, verification_config>>

\* resync_triggered is set: the lock is given back at once and the final
\* check starts, return await verify_one(e)
SkipResync(k) ==
    /\ verifiers[k].pc = "acquire"
    /\ LockAvailable
    /\ resync_triggered
    /\ verifiers' = [verifiers EXCEPT ![k].pc = "final",
                                      ![k].rescue_seen = rescue.state]
    /\ UNCHANGED <<billing_vars, verification_config, resync_lock, resync_triggered,
                   rescue>>

\* SyncStep.execute returns: the lock is released and the final check starts.
SyncCompleted(k) ==
    /\ verifiers[k].pc = "sync"
    /\ rescue' = [rescue EXCEPT !.state = "finished"]
    /\ resync_lock' = 0
    /\ verifiers' = [verifiers EXCEPT ![k].pc = "final", ![k].rescue_seen = "finished"]
    /\ UNCHANGED <<billing_vars, verification_config, resync_triggered>>

\* SyncStep.execute raises: the lock is released, the coroutine ends with the
\* exception.
SyncRaised(k) ==
    /\ verifiers[k].pc = "sync"
    /\ rescue' = [rescue EXCEPT !.state = "raised"]
    /\ resync_lock' = 0
    /\ verifiers' = [verifiers EXCEPT ![k].pc = "raised"]
    /\ UNCHANGED <<billing_vars, verification_config, resync_triggered>>

\* the final check after the resync returns
FinalCheck(k) ==
    /\ verifiers[k].pc = "final"
    /\ \E ok \in BOOLEAN :
          verifiers' = [verifiers EXCEPT ![k].pc = "done", ![k].ok = ok]
    /\ UNCHANGED <<billing_vars, verification_config, resync_lock, resync_triggered,
                   rescue>>

NextVerify ==
    \E k \in DOMAIN verifiers :
        \/ Found(k)
        \/ Missed(k)
        \/ Retry(k)
        \/ GiveUp(k)
        \/ AwaitLock(k)
        \/ TriggerResync(k)
        \/ SkipResync(k)
        \/ SyncCompleted(k)
        \/ SyncRaised(k)
        \/ FinalCheck(k)

SpecVerify == InitVerify /\ [][NextVerify]_vars

AllFinished ==
    tasks # <<>> /\ \A i \in DOMAIN tasks : tasks[i].pc \in {"done", "raised"}

\* Record and ledger after the events a, b handled one after the other.
Serial(a, b) ==
    LET one == process_event(base.record, base.periods, a, now)
        two == process_event(one.record, one.periods, b, now)
    IN Snapshot(two.record, two.periods)

---------------------------------------------------------------------------
(* Properties.  In a state reached by a delivery, `pre` is the record and   *)
(* ledger the handler found, `last` the event and its outcome, and record    *)
(* and periods what the handler left.                                        *)

Delivered(types) == ~Idle /\ last.ev.type \in types

ActiveIds(ps) == {i \in DOMAIN ps : ps[i].status = "active"}

\* C1: after any sequence of handled webhook events, at most one of the
\* organization's billing periods has status Active or Grace.
C1_AtMostOneLivePeriod == Cardinality(LiveIds(periods)) <= 1

\* A third period was opened while the two before it had been ended.
C1_Witness ==
    /\ Len(periods) = 3
    /\ Cardinality(LiveIds(periods)) = 1
    /\ \E i \in DOMAIN periods : periods[i].status = "ended_unpaid"

\* C2: the same subscription.updated event delivered a second time adds no
\* billing period, and leaves the billing record as the first delivery left it.
C2_UpdatedReplayIdempotent ==
    (Delivered({"customer.subscription.updated"}) /\ last.replay)
        => /\ record = pre.record
           /\ Len(periods) = Len(pre.periods)

\* A renewal whose first delivery opened a period is delivered again.
C2_Witness ==
    /\ Delivered({"customer.subscription.updated"})
    /\ last.replay
    /\ last.first = "done"
    /\ last.ev.renewal
    /\ pre.periods # <<>>
    /\ pre.periods[Len(pre.periods)].transition # "initial_signup"
    /\ pre.periods[Len(pre.periods)].period_start = last.ev.cps
    /\ pre.record.current_period_start = last.ev.cps

\* The case of C3, C4: a renewal applies a due pending plan and the price
\* switch fails with an error that is not the test-clock one.
SwitchFailed ==
    /\ Delivered({"customer.subscription.updated"})
    /\ get_billing_by_subscription(pre.record, last.ev.sub)
    /\ last.ev.renewal
    /\ PendingToApply(pre.record, last.ev) # "none"
    /\ last.ev.swap = "error"

\* C3: when the price switch of a renewal that applies a due pending plan
\* fails with an error other than the test-clock one, no billing period is
\* created and every field of the billing record keeps its value.
C3_SwitchFailureLeavesState ==
    SwitchFailed => (periods = pre.periods /\ record = pre.record)

\* The switch failed for an organization that had no Active or Grace period,
\* so that the period of the renewal could have been created.
C3_Witness ==
    /\ SwitchFailed
    /\ LiveIds(pre.periods) = {}
    /\ pre.record.pending_plan_change # pre.record.billing_plan
    /\ last.outcome = "aborted"

\* C4: when the price switch fails with an error other than the test-clock
\* one, the error propagates out of the handler and out of process_event.
C4_SwitchFailurePropagates == SwitchFailed => last.outcome = "raised"

\* C5: on a renewal for which inference returns changed and
\* should_clear_pending, billing_plan changes only after the price switch was
\* issued and succeeded or failed with the test-clock error; otherwise
\* billing_plan keeps its value.
C5_PlanOnlyAfterSwitch ==
    (/\ Delivered({"customer.subscription.updated"})
     /\ get_billing_by_subscription(pre.record, last.ev.sub)
     /\ SwitchesPrice(pre.record, last.ev))
        => \/ /\ "update_subscription" \in last.calls
              /\ last.ev.swap \in {"ok", "test_clock"}
           \/ record.billing_plan = pre.record.billing_plan

\* What C6 promises of a failed renewal payment that found period `old`.
GraceOpened(old) ==
    /\ periods[old].status = "ended_unpaid"
    /\ Cardinality({i \in DOMAIN periods : periods[i].status = "grace"}) = 1
    /\ Len(periods) = Len(pre.periods) + 1
    /\ periods[Len(periods)].status = "grace"
    /\ periods[Len(periods)].plan = pre.periods[old].plan
    /\ periods[Len(periods)].previous_period_id = old
    /\ record.grace_period_ends_at = last.at + GraceDays
    /\ record.billing_status = "past_due"

CycleFailure ==
    /\ Delivered({"invoice.payment_failed"})
    /\ last.ev.invoice_sub
    /\ get_by_stripe_customer(pre.record, last.ev.customer)
    /\ OrganizationFound(last.ev)
    /\ last.ev.reason = "subscription_cycle"

\* C6 as stated: invoice.payment_failed with billing_reason=subscription_cycle
\* for an organization that has an Active period ends that period unpaid,
\* opens one Grace period of the same plan linked to it, sets
\* grace_period_ends_at to the processing time + 7 days and billing_status to
\* PastDue.
C6_GraceForAnyActivePeriod ==
    CycleFailure => \A old \in ActiveIds(pre.periods) : GraceOpened(old)

\* C6, amended: the same, for an organization whose current period at the
\* processing time (the one currentPeriod returns for now) is Active.
C6_GraceForCurrentActivePeriod ==
    (/\ CycleFailure
     /\ get_current_billing_period(pre.periods, last.at) # 0)
        => LET old == get_current_billing_period(pre.periods, last.at) IN
           pre.periods[old].status = "active" => GraceOpened(old)

C6_Witness ==
    /\ CycleFailure
    /\ get_current_billing_period(pre.periods, last.at) # 0
    /\ pre.periods[get_current_billing_period(pre.periods, last.at)].status = "active"
    /\ pre.record.billing_status = "active"
    /\ GraceOpened(get_current_billing_period(pre.periods, last.at))

SameBounds(ps, qs) ==
    /\ Len(ps) = Len(qs)
    /\ \A i \in DOMAIN ps :
          /\ ps[i].plan = qs[i].plan
          /\ ps[i].period_start = qs[i].period_start
          /\ ps[i].period_end = qs[i].period_end

\* C7: invoice.payment_succeeded for a subscription invoice while
\* billing_status is PastDue sets billing_status to Active and leaves the plan
\* and bounds of the current period (of every period), and the record's
\* billing_plan and current_period_start/end, unchanged.
C7_RecoveryKeepsPlanAndBounds ==
    (/\ Delivered({"invoice.payment_succeeded", "invoice.paid"})
     /\ last.outcome = "done"
     /\ pre.record.billing_status = "past_due")
        => /\ record.billing_status = "active"
           /\ record.billing_plan = pre.record.billing_plan
           /\ record.current_period_start = pre.record.current_period_start
           /\ record.current_period_end = pre.record.current_period_end
           /\ SameBounds(periods, pre.periods)

\* Recovery after a failed renewal payment that opened a Grace period.
C7_Witness ==
    /\ Delivered({"invoice.payment_succeeded"})
    /\ last.outcome = "done"
    /\ pre.record.billing_status = "past_due"
    /\ pre.record.grace_period_ends_at # NoTime
    /\ record.billing_status = "active"
    /\ get_current_billing_period(periods, last.at) # 0

Canceled ==
    /\ Delivered({"customer.subscription.deleted"})
    /\ get_billing_by_subscription(pre.record, last.ev.sub)
    /\ OrganizationFound(last.ev)
    /\ last.ev.status = "canceled"

\* C8: a subscription-deleted event with status=canceled for a record with a
\* pending plan change X leaves billing_plan = X.
C8_CancellationFallsBackToPending ==
    (Canceled /\ pre.record.pending_plan_change # "none")
        => record.billing_plan = pre.record.pending_plan_change

C8_Witness ==
    /\ Canceled
    /\ pre.record.pending_plan_change = "enterprise"
    /\ pre.record.billing_plan = "pro"
    /\ record.billing_plan = "enterprise"

\* C9: a subscription-deleted event with status=canceled for a record with no
\* pending plan change leaves billing_plan the free plan.
C9_CancellationFallsBackToFree ==
    (Canceled /\ pre.record.pending_plan_change = "none")
        => record.billing_plan = "developer"

\* C10: two events of one organization handled by concurrent invocations
\* leave the record and the ledger as some serial execution of the two
\* handlers leaves them.
C10_ConcurrentHandlersSerialize ==
    AllFinished
        => Snapshot(record, periods)
              \in {Serial(tasks[1].ev, tasks[2].ev), Serial(tasks[2].ev, tasks[1].ev)}

\* C11: an invocation that fails leaves the record update and the ledger
\* change of that invocation both visible or both invisible.
C11_InvocationAtomic ==
    (/\ Delivered({"customer.subscription.created", "customer.subscription.updated",
                   "invoice.payment_failed"})
     /\ last.outcome = "raised")
        => ((record = pre.record) <=> (periods = pre.periods))

\* The case of C12: a renewal finds a pending plan whose date has not come.
PendingNotDue ==
    /\ Delivered({"customer.subscription.updated"})
    /\ get_billing_by_subscription(pre.record, last.ev.sub)
    /\ last.ev.found = "all"
    /\ last.ev.renewal
    /\ pre.record.pending_plan_change # "none"
    /\ pre.record.pending_plan_change_at > last.ev.cps

PendingKept ==
    /\ PendingToApply(pre.record, last.ev) = "none"
    /\ record.pending_plan_change = pre.record.pending_plan_change
    /\ record.pending_plan_change_at = pre.record.pending_plan_change_at

\* C12 as stated: on a renewal that finds a pending plan not yet due, the
\* pending plan is not given to inference, billing_plan keeps its value and the
\* pending-change fields stay.
C12_PendingNotDueKeepsPlan ==
    PendingNotDue => (PendingKept /\ record.billing_plan = pre.record.billing_plan)

\* C12, amended: the same, billing_plan keeping its value when the line items
\* did not change to another plan.
C12_PendingNotDueKeepsPlanUnlessItems ==
    PendingNotDue
        => /\ PendingKept
           /\ ~(/\ last.ev.items_changed
                /\ MappedPlan(last.ev.items) \notin {"none", pre.record.billing_plan})
                 => record.billing_plan = pre.record.billing_plan

C12_Witness ==
    /\ PendingNotDue
    /\ ~last.ev.items_changed
    /\ last.outcome = "done"
    /\ record.current_period_start # pre.record.current_period_start
    /\ record.pending_plan_change # "none"

\* The first rule of inference, for all its inputs.
DuePendingRule ==
    \A c \in Plans, p \in Plans, ic \in BOOLEAN, it \in Plans \cup {"none"} :
        infer_plan_from_webhook(c, p, TRUE, ic, it)
           = [plan |-> p, changed |-> TRUE, should_clear_pending |-> TRUE]

C14_UnknownTypeDropped ==
    (~Idle /\ last.ev.type \notin HandledTypes)
        => /\ last.outcome # "raised"
           /\ record = pre.record
           /\ periods = pre.periods

C14_Witness ==
    /\ Delivered({"customer.updated"})
    /\ last.outcome = "unhandled"
    /\ periods # <<>>

\* C15: an exception a handler raises is raised by process_event.
C15_RouterReraises ==
    (/\ ~Idle
     /\ last.ev.type \in HandledTypes
     /\ Raises(Dispatch(pre.record, pre.periods, last.ev, last.at)))
        => last.outcome = "raised"

\* The finalizer failed at the subscription step and the delivery ended raising.
C15_Witness ==
    /\ Delivered({"checkout.session.completed"})
    /\ last.ev.swap = "error"
    /\ "create_subscription" \in last.calls
    /\ last.outcome = "raised"

\* C16: when no organization is resolved for the logger, the lookup having
\* found none or having raised, the event is dispatched to its handler all
\* the same.
C16_ResolutionFailureStillDispatches ==
    (~Idle /\ last.ev.type \in HandledTypes /\ last.context = "none")
        => [record |-> record, periods |-> periods, outcome |-> last.outcome,
            calls |-> last.calls]
              = Dispatch(pre.record, pre.periods, last.ev, last.at)

C16_Witness ==
    /\ Delivered({"invoice.payment_succeeded"})
    /\ last.ev.lookup = "raises"
    /\ last.context = "none"
    /\ last.outcome = "done"
    /\ pre.record.billing_status = "past_due"
    /\ record.billing_status = "active"

\* The case of C17: the record, the organization or metadata the handler
\* requires is missing.
MissingContext ==
    /\ ~Idle
    /\ \/ /\ last.ev.type = "customer.subscription.created"
          /\ (~last.ev.org \/ last.ev.found # "all")
       \/ /\ last.ev.type \in {"customer.subscription.updated",
                               "customer.subscription.deleted"}
          /\ \/ ~get_billing_by_subscription(pre.record, last.ev.sub)
             \/ last.ev.found # "all"
       \/ /\ last.ev.type \in {"invoice.payment_succeeded", "invoice.paid",
                               "invoice.payment_failed"}
          /\ last.ev.invoice_sub
          /\ \/ ~get_by_stripe_customer(pre.record, last.ev.customer)
             \/ last.ev.found # "all"
       \/ /\ last.ev.type = "checkout.session.completed"
          /\ last.ev.mode = "payment"
          /\ \/ last.ev.meta \in {"absent"} \cup Incomplete
             \/ (last.ev.meta = "ok" /\ last.ev.found # "all")

\* C17: a handler that misses the record, the organization or required
\* metadata returns without raising and changes nothing.
C17_MissingContextDropped ==
    MissingContext
        => /\ last.outcome = "dropped"
           /\ record = pre.record
           /\ periods = pre.periods

\* A renewal for a subscription the record carries, the organization gone.
C17_Witness ==
    /\ MissingContext
    /\ Delivered({"customer.subscription.updated"})
    /\ get_billing_by_subscription(pre.record, last.ev.sub)
    /\ last.ev.found = "no_org"
    /\ last.outcome = "dropped"

\* C18: a subscription-deleted event whose status is not canceled sets
\* cancel_at_period_end and leaves every other field and every period alone.
C18_ScheduledCancelOnlyFlag ==
    (/\ Delivered({"customer.subscription.deleted"})
     /\ get_billing_by_subscription(pre.record, last.ev.sub)
     /\ last.ev.found = "all"
     /\ last.ev.status # "canceled")
        => /\ record = [pre.record EXCEPT !.cancel_at_period_end = TRUE]
           /\ periods = pre.periods

C18_Witness ==
    /\ Delivered({"customer.subscription.deleted"})
    /\ last.ev.status # "canceled"
    /\ pre.record.pending_plan_change # "none"
    /\ ~pre.record.cancel_at_period_end
    /\ record.cancel_at_period_end
    /\ LiveIds(periods) # {}

\* The finalizer got past its lookups.
Finalizing ==
    /\ Delivered({"checkout.session.completed"})
    /\ last.ev.mode = "payment"
    /\ last.ev.meta = "ok"
    /\ last.ev.found = "all"

\* C19: when the payment intent cannot be verified as settled, the finalizer
\* creates or updates no subscription and leaves the record unchanged.
C19_UnverifiedPaymentAborts ==
    (Finalizing /\ last.ev.pi # "settled")
        => /\ record = pre.record
           /\ last.calls \cap {"create_subscription", "update_subscription",
                               "apply_coupon_to_subscription"} = {}

\* C20: the record never carries the subscription and plan of a prepayment
\* without its bookkeeping.
C20_PrepayPersistedAtomically ==
    (Finalizing /\ record # pre.record)
        => /\ record.has_yearly_prepay
           /\ record.yearly_prepay_expires_at = expires_at(last.ev)

\* C21: a checkout-completed event in payment mode whose metadata is absent,
\* is not of type yearly_prepay, or lacks the organization id, the plan, the
\* coupon id or the payment intent id makes no processor call, changes neither
\* the record nor the ledger, and raises nothing.
C21_BadPrepayMetadataDropped ==
    (/\ Delivered({"checkout.session.completed"})
     /\ last.ev.mode = "payment"
     /\ last.ev.meta # "ok")
        => /\ last.calls = {}
           /\ record = pre.record
           /\ periods = pre.periods
           /\ last.outcome # "raised"

\* A prepayment without its coupon id, for an organization with a subscription.
C21_Witness ==
    /\ Delivered({"checkout.session.completed"})
    /\ last.ev.mode = "payment"
    /\ last.ev.meta = "no_coupon_id"
    /\ pre.record.stripe_subscription_id # "none"
    /\ last.outcome = "dropped"
    /\ record = pre.record

\* The handler's best-effort side calls failed.
SideCallFailed == ~Idle /\ last.ev.side = "fail"

\* What the same event does when its side calls succeed.
WithSideCalls ==
    process_event(pre.record, pre.periods, [last.ev EXCEPT !.side = "ok"], last.at)

SameLedger(ps, qs) ==
    /\ SameBounds(ps, qs)
    /\ \A i \in DOMAIN ps : ps[i].status = qs[i].status

\* C22: a failure of a best-effort side call (balance credit, discount
\* removal, invoice stamping, notification) does not abort the handler: it
\* raises nothing, and ends with the billing record and the periods' status,
\* plan and bounds that it ends with when the side call succeeds.
C22_SideCallFailureHarmless ==
    SideCallFailed
        => /\ last.outcome = WithSideCalls.outcome
           /\ record = WithSideCalls.record
           /\ SameLedger(periods, WithSideCalls.periods)

\* The balance credit of a prepayment failed; subscription, plan and
\* bookkeeping were written all the same.
C22_Witness ==
    /\ SideCallFailed
    /\ Delivered({"checkout.session.completed"})
    /\ "credit_customer_balance" \in last.calls
    /\ last.outcome = "done"
    /\ record.billing_plan = "pro"
    /\ record.has_yearly_prepay
    /\ ~pre.record.has_yearly_prepay

Notifications == {"notify_subscription", "team_welcome_email"}

\* The writes of the handler that notifies, all made.
WritesMade ==
    IF last.ev.type = "customer.subscription.created"
    THEN /\ record = ApplyUpdate(pre.record, SubscriptionCreatedUpdates(last.ev))
         /\ Len(periods) = Len(pre.periods) + 1
         /\ periods[Len(periods)].status = "active"
    ELSE /\ record = record_yearly_prepay_finalized(
                         ApplyUpdate(pre.record, PrepayUpdates(pre.record, last.ev)),
                         last.ev)
         /\ periods = pre.periods

\* C23: a notification (subscription notification, team welcome email) is
\* sent only after the record and ledger writes of the same invocation have
\* succeeded; an invocation whose writes fail sends none.
C23_NotifyAfterWrites ==
    ~Idle
        => /\ last.outcome = "raised" => last.calls \cap Notifications = {}
           /\ last.calls \cap Notifications # {} => WritesMade

\* The bookkeeping write of a prepayment failed after the subscription was
\* created: no notification went out.
C23_Witness ==
    /\ Delivered({"checkout.session.completed"})
    /\ BookkeepingFails(last.ev)
    /\ last.outcome = "raised"
    /\ "create_subscription" \in last.calls
    /\ last.calls \cap Notifications = {}
    /\ record # pre.record

\* C24: every period's previous_period_id is null or the id of a period
\* created earlier, so that the links form an acyclic backward chain, and no
\* handler changes the previous_period_id of a period that exists.
C24_BackwardChain ==
    /\ \A i \in DOMAIN periods :
          periods[i].previous_period_id \in 0..(i - 1)
    /\ ~Idle =>
          \A i \in DOMAIN pre.periods :
              /\ i \in DOMAIN periods
              /\ periods[i].previous_period_id = pre.periods[i].previous_period_id

\* A chain of three periods, the earlier ones ended since they were linked to.
C24_Witness ==
    /\ ~Idle
    /\ Len(periods) = 3
    /\ periods[3].previous_period_id = 2
    /\ periods[2].previous_period_id = 1
    /\ periods[1].previous_period_id = 0
    /\ periods[2].status # pre.periods[2].status

\* C25: no handler deletes a billing period, and a period that has a
\* terminal status (Completed or EndedUnpaid) keeps every field, its invoice
\* stamps included, whatever the interleaving of the handlers.
C25_TerminalPeriodsFrozen ==
    [][\A i \in DOMAIN periods :
          /\ i \in DOMAIN periods'
          /\ Terminal(periods[i]) => periods'[i] = periods[i]]_vars

\* What C26 promises of the record after a cancellation.
SubscriptionCleared ==
    /\ record.stripe_subscription_id = "none"
    /\ ~record.cancel_at_period_end
    /\ record.pending_plan_change = "none"
    /\ record.pending_plan_change_at = NoTime

\* C26 as stated: after a subscription-deleted event with status=canceled for
\* an organization with an Active or Grace period, that period is Completed,
\* the organization has no Active or Grace period, stripe_subscription_id is
\* null, cancel_at_period_end false and both pending-change fields null.
C26_CancellationCompletesLivePeriod ==
    (Canceled /\ LiveIds(pre.periods) # {})
        => /\ \A i \in LiveIds(pre.periods) : periods[i].status = "completed"
           /\ LiveIds(periods) = {}
           /\ SubscriptionCleared

\* C26, amended: the record is cleared in any case; the period is Completed,
\* and no Active or Grace period is left, when the Active or Grace period is
\* the organization's current period at the processing time.
C26_CancellationCompletesCurrentPeriod ==
    Canceled
        => /\ SubscriptionCleared
           /\ LET cur == get_current_billing_period(pre.periods, last.at) IN
              (cur # 0 /\ Live(pre.periods[cur]))
                  => /\ periods[cur].status = "completed"
                     /\ LiveIds(periods) = {}

\* A cancellation that found the current period Active, a plan change pending.
C26_Witness ==
    /\ Canceled
    /\ get_current_billing_period(pre.periods, last.at) # 0
    /\ pre.periods[get_current_billing_period(pre.periods, last.at)].status = "active"
    /\ pre.record.pending_plan_change # "none"
    /\ periods[get_current_billing_period(pre.periods, last.at)].status = "completed"
    /\ LiveIds(periods) = {}
    /\ SubscriptionCleared

\* A renewal was handled to its end for the subscription the record carries.
RenewalHandled ==
    /\ Delivered({"customer.subscription.updated"})
    /\ get_billing_by_subscription(pre.record, last.ev.sub)
    /\ last.ev.renewal
    /\ last.outcome = "done"

\* C27: after a renewal that successfully applies a due pending plan,
\* billing_plan is the former pending plan and both pending-change fields are
\* null; a pending plan change is left in place by a successfully handled
\* renewal only if the renewal comes before its effective date.
C27_DuePendingAppliedAndCleared ==
    /\ (/\ RenewalHandled
        /\ pre.record.pending_plan_change # "none"
        /\ pre.record.pending_plan_change_at # NoTime
        /\ last.ev.cps >= pre.record.pending_plan_change_at)
           => /\ record.billing_plan = pre.record.pending_plan_change
              /\ record.pending_plan_change = "none"
              /\ record.pending_plan_change_at = NoTime
    /\ (RenewalHandled /\ record.pending_plan_change # "none")
           => last.ev.cps < record.pending_plan_change_at

\* The renewal at the effective date switched the price and opened the period
\* of the plan that was pending.
C27_Witness ==
    /\ RenewalHandled
    /\ pre.record.pending_plan_change \notin {"none", pre.record.billing_plan}
    /\ last.ev.cps = pre.record.pending_plan_change_at
    /\ last.ev.swap = "ok"
    /\ "update_subscription" \in last.calls
    /\ record.billing_plan = pre.record.pending_plan_change
    /\ record.pending_plan_change = "none"
    /\ Len(periods) = Len(pre.periods) + 1
    /\ periods[Len(periods)].plan = record.billing_plan

\* C28: a subscription.updated event that is not a renewal leaves
\* pending_plan_change and pending_plan_change_at as they were, and changes
\* billing_plan only when the line items changed and map to a plan other than
\* the current one.
C28_NonRenewalKeepsPending ==
    (Delivered({"customer.subscription.updated"}) /\ ~last.ev.renewal)
        => /\ record.pending_plan_change = pre.record.pending_plan_change
           /\ record.pending_plan_change_at = pre.record.pending_plan_change_at
           /\ record.billing_plan # pre.record.billing_plan
                 => /\ last.ev.items_changed
                    /\ MappedPlan(last.ev.items) \notin {"none", pre.record.billing_plan}
                    /\ record.billing_plan = MappedPlan(last.ev.items)

\* An immediate change of line items while a pending change is due: the plan
\* follows the items and the pending change stays.
C28_Witness ==
    /\ Delivered({"customer.subscription.updated"})
    /\ ~last.ev.renewal
    /\ last.outcome = "done"
    /\ pre.record.pending_plan_change \notin {"none", "team"}
    /\ last.ev.cps >= pre.record.pending_plan_change_at
    /\ pre.record.billing_plan # "team"
    /\ record.billing_plan = "team"
    /\ record.pending_plan_change = pre.record.pending_plan_change

\* C29: invoice.payment_failed on a subscription invoice whose billing_reason
\* is not a renewal cycle sets billing_status to PastDue and
\* last_payment_status to failed, creates and completes no billing period, and
\* leaves grace_period_ends_at (and every other field) unchanged.
C29_NonCycleFailureOnlyPastDue ==
    (/\ Delivered({"invoice.payment_failed"})
     /\ last.ev.invoice_sub
     /\ get_by_stripe_customer(pre.record, last.ev.customer)
     /\ last.ev.found = "all"
     /\ last.ev.reason # "subscription_cycle")
        => /\ record = [pre.record EXCEPT !.billing_status = "past_due",
                                           !.last_payment_status = "failed"]
           /\ periods = pre.periods
           /\ last.outcome = "done"

\* The payment of a plan change failed while the current period was Active.
C29_Witness ==
    /\ Delivered({"invoice.payment_failed"})
    /\ last.ev.reason = "subscription_update"
    /\ pre.record.billing_status = "active"
    /\ get_current_billing_period(pre.periods, last.at) # 0
    /\ pre.periods[get_current_billing_period(pre.periods, last.at)].status = "active"
    /\ record.billing_status = "past_due"
    /\ record.last_payment_status = "failed"
    /\ record.grace_period_ends_at = NoTime
    /\ periods = pre.periods

\* C30: invoice.payment_succeeded, invoice.paid and invoice.payment_failed
\* events for an invoice with no subscription (a one-time payment) change
\* neither the billing record nor any billing period.
C30_OneTimeInvoiceIgnored ==
    (/\ Delivered({"invoice.payment_succeeded", "invoice.paid", "invoice.payment_failed"})
     /\ ~last.ev.invoice_sub)
        => /\ record = pre.record
           /\ periods = pre.periods
           /\ last.outcome = "dropped"

\* A one-time invoice paid by a customer whose subscription is past due.
C30_Witness ==
    /\ Delivered({"invoice.paid"})
    /\ ~last.ev.invoice_sub
    /\ get_by_stripe_customer(pre.record, last.ev.customer)
    /\ pre.record.billing_status = "past_due"
    /\ LiveIds(pre.periods) # {}
    /\ record = pre.record

\* C31: a successful finalization of a yearly prepayment issues exactly one of
\* the two processor operations: it switches the price of the existing
\* subscription, applying the coupon to it, if and only if the record has a
\* subscription id, and creates a subscription with the coupon otherwise; no
\* finalization creates a subscription for a record that has one.
C31_PrepaySwitchesOrCreates ==
    /\ (Finalizing /\ last.outcome = "done" /\ last.ev.swap # "no_price")
           => /\ "update_subscription" \in last.calls
                    <=> pre.record.stripe_subscription_id # "none"
              /\ "apply_coupon_to_subscription" \in last.calls
                    <=> pre.record.stripe_subscription_id # "none"
              /\ "create_subscription" \in last.calls
                    <=> pre.record.stripe_subscription_id = "none"
    /\ (Finalizing /\ pre.record.stripe_subscription_id # "none")
           => "create_subscription" \notin last.calls

\* A prepayment for an organization that has a subscription on another plan.
C31_Witness ==
    /\ Finalizing
    /\ last.outcome = "done"
    /\ pre.record.stripe_subscription_id # "none"
    /\ pre.record.billing_plan # last.ev.plan
    /\ "update_subscription" \in last.calls
    /\ "create_subscription" \notin last.calls
    /\ record.billing_plan = last.ev.plan
    /\ record.stripe_subscription_id = pre.record.stripe_subscription_id

YearlyFields ==
    {"has_yearly_prepay", "yearly_prepay_expires_at", "yearly_prepay_started_at",
     "yearly_prepay_amount_cents", "yearly_prepay_coupon_id",
     "yearly_prepay_payment_intent_id"}

\* The processor period of the event starts at or after the prepay expiry.
PrepayExpired(rec, ev) ==
    /\ rec.has_yearly_prepay
    /\ rec.yearly_prepay_expires_at # NoTime
    /\ ev.cps >= rec.yearly_prepay_expires_at

\* C32: a handled renewal whose processor period starts at or after
\* yearly_prepay_expires_at clears has_yearly_prepay and every prepay
\* bookkeeping field; a subscription.updated event whose period starts before
\* the expiry leaves all of them as they were.
C32_ExpiredPrepayCleared ==
    Delivered({"customer.subscription.updated"})
        => /\ (last.outcome = "done" /\ last.ev.renewal
                    /\ PrepayExpired(pre.record, last.ev))
                 => \A f \in YearlyFields : record[f] = YearlyPrepayCleared[f]
           /\ (pre.record.has_yearly_prepay
                    /\ last.ev.cps < pre.record.yearly_prepay_expires_at)
                 => \A f \in YearlyFields : record[f] = pre.record[f]

\* The renewal a year after the prepayment ends the prepay term.
C32_Witness ==
    /\ Delivered({"customer.subscription.updated"})
    /\ last.outcome = "done"
    /\ last.ev.renewal
    /\ pre.record.has_yearly_prepay
    /\ pre.record.yearly_prepay_coupon_id # "none"
    /\ last.ev.cps = pre.record.yearly_prepay_expires_at
    /\ ~record.has_yearly_prepay
    /\ record.yearly_prepay_expires_at = NoTime

\* A renewal inside the prepay term.
C32_WitnessBeforeExpiry ==
    /\ Delivered({"customer.subscription.updated"})
    /\ last.outcome = "done"
    /\ last.ev.renewal
    /\ pre.record.has_yearly_prepay
    /\ last.ev.cps < pre.record.yearly_prepay_expires_at
    /\ record.has_yearly_prepay

\* The renewal was carried through and added a period to the ledger.
RenewalCreatedPeriod ==
    /\ RenewalHandled
    /\ Len(periods) = Len(pre.periods) + 1

\* The periods the ledger held that end where the processor period starts.
PriorIds == {i \in DOMAIN pre.periods : pre.periods[i].period_end = last.ev.cps}

\* C33: when a renewal creates a period while the organization has a prior
\* period ending at the processor period start, the new period's
\* previous_period_id is what currentPeriod returns for at = processor period
\* start, and that is the prior period.
C33_RenewalLinksPriorPeriod ==
    (RenewalCreatedPeriod /\ PriorIds # {})
        => /\ periods[Len(periods)].previous_period_id
                 = get_current_billing_period(pre.periods, last.ev.cps)
           /\ periods[Len(periods)].previous_period_id \in PriorIds

\* The period of a renewal is linked to the period found at the processor
\* period start, whatever the wall clock says.
C33_LinkedAtProcessorTime ==
    RenewalCreatedPeriod
        => periods[Len(periods)].previous_period_id
              = get_current_billing_period(pre.periods, last.ev.cps)

\* A renewal whose price switch the processor refused with the sandbox-clock
\* error.
SandboxClockRenewal ==
    /\ Delivered({"customer.subscription.updated"})
    /\ get_billing_by_subscription(pre.record, last.ev.sub)
    /\ SwitchesPrice(pre.record, last.ev)
    /\ last.ev.swap = "test_clock"

\* What the handler makes of the same event when the switch goes through.
AsOnSuccess ==
    process_event(pre.record, pre.periods, [last.ev EXCEPT !.swap = "ok"], last.at)

\* C34: a renewal whose price switch fails with the recognized sandbox-clock
\* error ends in the record and the ledger that a successful switch gives:
\* when carried through, the new period has the pending plan, billing_plan is
\* the pending plan and the pending-change fields are cleared.
C34_SandboxClockAsSuccess ==
    SandboxClockRenewal
        => /\ record = AsOnSuccess.record
           /\ periods = AsOnSuccess.periods
           /\ last.outcome = AsOnSuccess.outcome
           /\ last.outcome # "aborted"
           /\ last.outcome = "done"
                 => /\ Len(periods) = Len(pre.periods) + 1
                    /\ periods[Len(periods)].plan = pre.record.pending_plan_change
                    /\ record.billing_plan = pre.record.pending_plan_change
                    /\ record.pending_plan_change = "none"
                    /\ record.pending_plan_change_at = NoTime

\* The pending downgrade went into the ledger and the record although the
\* processor refused the switch on a sandbox clock.
C34_Witness ==
    /\ SandboxClockRenewal
    /\ last.outcome = "done"
    /\ "update_subscription" \in last.calls
    /\ pre.record.pending_plan_change \notin {"none", pre.record.billing_plan}
    /\ Len(periods) = Len(pre.periods) + 1
    /\ periods[Len(periods)].plan = pre.record.pending_plan_change
    /\ record.billing_plan = pre.record.pending_plan_change
    /\ record.pending_plan_change = "none"

\* The second application of a failed renewal payment whose first application
\* opened a Grace period.
CycleFailureReplayed ==
    /\ Delivered({"invoice.payment_failed"})
    /\ last.ev.reason = "subscription_cycle"
    /\ last.replay
    /\ last.first = "done"
    /\ pre.periods # <<>>
    /\ pre.periods[Len(pre.periods)].status = "grace"

\* C35: the second application of the same invoice.payment_failed event with
\* billing_reason=subscription_cycle adds no billing period and leaves the
\* status of every period and grace_period_ends_at as the first application
\* left them.
C35_CycleFailureReplayIdempotent ==
    CycleFailureReplayed
        => /\ Len(periods) = Len(pre.periods)
           /\ \A i \in DOMAIN pre.periods : periods[i].status = pre.periods[i].status
           /\ record.grace_period_ends_at = pre.record.grace_period_ends_at

\* C36: when the same yearly-prepay checkout.session.completed event is
\* delivered twice, the captured amount is credited to the customer's
\* processor balance at most once.
C36_CreditedAtMostOnce ==
    (Finalizing /\ last.replay /\ last.ev.side = "ok"
        /\ "credit_customer_balance" \in last.earlier)
        => "credit_customer_balance" \notin last.calls

\* The finalizers at work in the tasks.
Finalizers == {i \in DOMAIN tasks : "created" \in DOMAIN tasks[i]}

\* C37: when two deliveries of a yearly-prepay checkout.session.completed
\* event for an organization without a subscription are finalized
\* concurrently, at most one processor subscription is created for it.
C37_OneSubscriptionCreated ==
    base.record.stripe_subscription_id = "none"
        => Cardinality({i \in Finalizers : tasks[i].created}) <= 1

\* Two subscriptions are created only when both finalizers read the record
\* before either wrote its subscription to it.
C37_BothReadBeforeWrite ==
    \A i \in Finalizers, j \in Finalizers :
        (i # j /\ tasks[i].created /\ tasks[j].created)
            => tasks[i].billing.stripe_subscription_id = "none"
               /\ tasks[j].billing.stripe_subscription_id = "none"

\* The second delivery of a cancellation that the first delivery applied.
CancellationReplayed ==
    /\ Delivered({"customer.subscription.deleted"})
    /\ last.ev.status = "canceled"
    /\ last.replay
    /\ last.first = "done"

\* C38: the redelivery of an applied subscription-deleted event with
\* status=canceled finds no billing record by the subscription id: the record
\* and every billing period stay as they are, no call is made and nothing is
\* raised.
C38_CancellationReplayNoOp ==
    CancellationReplayed
        => /\ ~get_billing_by_subscription(pre.record, last.ev.sub)
           /\ last.outcome = "dropped"
           /\ record = pre.record
           /\ periods = pre.periods
           /\ last.calls = {}

\* A cancellation that completed the current period is delivered again.
C38_Witness ==
    /\ CancellationReplayed
    /\ pre.record.stripe_subscription_id = "none"
    /\ \E i \in DOMAIN pre.periods : pre.periods[i].status = "completed"
    /\ last.outcome = "dropped"
    /\ record = pre.record
    /\ periods = pre.periods

\* C39: handling invoice.payment_succeeded changes neither
\* grace_period_ends_at nor the status of any billing period, and adds no
\* period: after the recovery from PastDue the Grace period opened by the
\* failed renewal is still Grace and grace_period_ends_at has its value.
C39_PaymentSucceededKeepsGrace ==
    Delivered({"invoice.payment_succeeded", "invoice.paid"})
        => /\ record.grace_period_ends_at = pre.record.grace_period_ends_at
           /\ Len(periods) = Len(pre.periods)
           /\ \A i \in DOMAIN pre.periods : periods[i].status = pre.periods[i].status

\* The payment after a failed renewal: the record is Active again, the Grace
\* period and the end of the grace window are still there.
C39_Witness ==
    /\ Delivered({"invoice.payment_succeeded"})
    /\ last.outcome = "done"
    /\ pre.record.billing_status = "past_due"
    /\ record.billing_status = "active"
    /\ record.grace_period_ends_at # NoTime
    /\ \E i \in DOMAIN periods :
          /\ periods[i].status = "grace"
          /\ periods[i].previous_period_id # 0
          /\ periods[periods[i].previous_period_id].status = "ended_unpaid"

\* C40: within one VerifyStep.execute, however many verifications exhaust
\* their retries, the rescue SyncStep is executed at most once, and no final
\* check starts before that rescue sync has ended: none runs while the sync
\* does, and each was started with the sync over.
C40_OneRescueBeforeFinalChecks ==
    /\ rescue.runs <= 1
    /\ \A k \in DOMAIN verifiers :
          /\ verifiers[k].rescue_seen \in {"none", "finished", "raised"}
          /\ verifiers[k].pc = "final" => rescue.state \in {"finished", "raised"}
          /\ verifiers[k].pc = "final" => verifiers[k].rescue_seen # "none"

\* Two verifications ran out of retries; one ran the rescue sync, both made
\* their final check after it.
C40_Witness ==
    /\ rescue = [runs |-> 1, state |-> "finished"]
    /\ Attempts > 1
    /\ \E j \in DOMAIN verifiers, k \in DOMAIN verifiers :
          /\ j # k
          /\ verifiers[j].rescue_seen = "finished"
          /\ verifiers[k].rescue_seen = "finished"
          /\ verifiers[j].i = Attempts - 1
          /\ verifiers[k].i = Attempts - 1
          /\ verifiers[j].pc = "done"
          /\ verifiers[k].pc = "final"

=============================================================================
